---- MODULE Spec2Model ----
(***************************************************************************)
(* A model of Ptr.h: the ScopedPtr and RefPtr smart pointers.              *)
(*                                                                         *)
(* The state is the heap (the Resources and the counter cells allocated    *)
(* with new), the fields of every handle object (ptr, refs), and a record  *)
(* of the last operation with the heap events it performed, in order.      *)
(* Every public operation of the two classes is one action.  Undefined     *)
(* behaviour (a read through a null or a dangling refs, a second delete)   *)
(* is a choice over its outcomes: the process is killed, or it goes on     *)
(* with an arbitrary value read.  A second part runs the copy constructor  *)
(* and the destructor of RefPtr in several threads, one access to *refs    *)
(* at a time.                                                              *)
(***************************************************************************)
EXTENDS Integers, Sequences, FiniteSets, TLC

\* ------------------------------------------------------------------ bounds
NumHandles == 2       \* handle objects (ScopedPtr or RefPtr) that exist at once
NumCells == 2         \* counter cells allocated in one run
NumRes == 2           \* Resources allocated in one run
SizeMax == 7          \* stands for SIZE_MAX: the counter is an unsigned size_t
NumThreads == 2       \* threads that run RefPtr operations at once

NULL == 0             \* nullptr

Handles == 1..NumHandles
Cells == 1..NumCells
Resources == 1..NumRes
Threads == 1..NumThreads

\* What a read through a dangling or null pointer can produce: zero or not.
StaleValues == {0, 1}

VARIABLES
    kind,      \* kind[h]: "none" (no object), "scoped" (a ScopedPtr), "ref" (a RefPtr)
    ptr,       \* ScopedPtr::ptr, RefPtr::ptr
    refs,      \* RefPtr::refs
    moved,     \* ghost: h was the source of a move and was not assigned since
    cell,      \* the size_t stored in each allocated counter cell
    cst,       \* allocation state of each counter cell
    origin,    \* ghost: the constructor that allocated each counter cell
    rst,       \* allocation state of each Resource
    crashed,   \* the process was killed by a fault
    last,      \* the last operation: its name, its heap events in order, its result
    pc,        \* pc[t]: where thread t stands in the operation it is running
    reg,       \* reg[t]: the value of *refs that thread t loaded
    obj,       \* obj[t]: the RefPtr that thread t is constructing or destroying
    sync,      \* the caller serializes the operations with a mutex of its own
    mutex      \* the thread inside the caller's mutex, or NULL

vars == <<kind, ptr, refs, moved, cell, cst, origin, rst, crashed, last,
          pc, reg, obj, sync, mutex>>

ThreadVars == <<pc, reg, obj, sync, mutex>>

\* Allocation states: never allocated, allocated, deleted.
AllocStates == {"unalloc", "live", "freed"}

\* ------------------------------------------------------------------ heap
\* The heap as a value, threaded through the steps of one operation.
Heap == [cell |-> cell, cst |-> cst, origin |-> origin, rst |-> rst, log |-> <<>>,
         crashed |-> FALSE]

Ev(H, e, target) == [H EXCEPT !.log = Append(@, <<e, target>>)]

Kill(H) == [H EXCEPT !.crashed = TRUE]

\* operator new hands out an address never used before (lowest first).
FreshCell ==
    IF \E c \in Cells : cst[c] = "unalloc"
    THEN CHOOSE c \in Cells : cst[c] = "unalloc" /\ \A d \in Cells : d < c => cst[d] # "unalloc"
    ELSE NULL

FreshRes ==
    IF \E r \in Resources : rst[r] = "unalloc"
    THEN CHOOSE r \in Resources : rst[r] = "unalloc" /\ \A d \in Resources : d < r => rst[d] # "unalloc"
    ELSE NULL

\* The storage of a new handle object (lowest free slot).
FreshHandle ==
    IF \E h \in Handles : kind[h] = "none"
    THEN CHOOSE h \in Handles : kind[h] = "none" /\ \A g \in Handles : g < h => kind[g] # "none"
    ELSE NULL

\* new size_t(v), in the constructor named o
NewRefs(c, v, o, H) ==
    Ev([H EXCEPT !.cell[c] = v, !.cst[c] = "live", !.origin[c] = o], "new_refs", c)

\* new T
NewRes(p, H) == IF p = NULL THEN H ELSE Ev([H EXCEPT !.rst[p] = "live"], "new_ptr", p)

\* *refs read: the set of <<value, heap>> outcomes.
ReadRefs(r, H) ==
    IF r = NULL
    THEN {<<0, Kill(Ev(H, "null_deref", NULL))>>}
         \cup {<<v, Ev(H, "null_deref", NULL)>> : v \in StaleValues}
    ELSE IF H.cst[r] # "live"
    THEN {<<v, Ev(H, "stale_read", r)>> : v \in StaleValues}
    ELSE {<<H.cell[r], Ev(H, "read", r)>>}

\* (*refs)++ and (*refs)--, modulo the width of size_t: the set of heap outcomes.
WriteRefs(r, H, e) ==
    IF r = NULL
    THEN {Kill(Ev(H, "null_deref", NULL)), Ev(H, "null_deref", NULL)}
    ELSE IF H.cst[r] # "live"
    THEN {Ev(H, "stale_write", r)}
    ELSE {Ev([H EXCEPT !.cell[r] = (@ + (IF e = "inc" THEN 1 ELSE SizeMax)) % (SizeMax + 1)],
             e, r)}

\* delete ptr: a second delete of one Resource is a double free.
DeletePtr(p, H) ==
    IF p = NULL THEN {H}
    ELSE IF H.rst[p] = "live"
    THEN {Ev([H EXCEPT !.rst[p] = "freed"], "delete_ptr", p)}
    ELSE {Ev(H, "double_free_ptr", p), Kill(Ev(H, "double_free_ptr", p))}

\* delete refs: a freed cell's content is gone (and the ghost with it).
DeleteRefs(r, H) ==
    IF r = NULL THEN {H}
    ELSE IF H.cst[r] = "live"
    THEN {Ev([H EXCEPT !.cst[r] = "freed", !.cell[r] = 0, !.origin[r] = "none"],
             "delete_refs", r)}
    ELSE {Ev(H, "double_free_refs", r), Kill(Ev(H, "double_free_refs", r))}

\* ------------------------------------------------------------------ RefPtr private
\* IncRef without its increment.
IncRef_NoIncrement(p, r, H) == {H}

IncRef(p, r, H) ==
    IF H.crashed \/ p = NULL THEN {H} ELSE WriteRefs(r, H, "inc")

\* DecRef without its decrement.
DecRef_NoDecrement(p, r, H) == {H}

\* DecRef without its test of ptr.
DecRef_NoGuard(p, r, H) ==
    IF H.crashed THEN {H} ELSE WriteRefs(r, H, "dec")

DecRef(p, r, H) ==
    IF H.crashed \/ p = NULL THEN {H} ELSE WriteRefs(r, H, "dec")

\* Clean without its test of the count: every release frees.
CleanTest_NoZeroTest(p, r, v, H) ==
    IF H.crashed THEN {H}
    ELSE UNION {IF H1.crashed THEN {H1} ELSE DeleteRefs(r, H1) : H1 \in DeletePtr(p, H)}

\* The body of Clean's if (*refs == 0), v being the value read.
CleanTest(p, r, v, H) ==
    IF H.crashed \/ v # 0 THEN {H}
    ELSE UNION {IF H1.crashed THEN {H1} ELSE DeleteRefs(r, H1) : H1 \in DeletePtr(p, H)}

Clean(p, r, H) ==
    UNION {IF H1.crashed THEN {H1}
           ELSE UNION {CleanTest(p, r, o[1], o[2]) : o \in ReadRefs(r, H1)}
           : H1 \in DecRef(p, r, H)}

\* ------------------------------------------------------------------ ScopedPtr private
\* ScopedPtr::Clean without its delete.
ScopedClean_NoDelete(p, H) == {H}

\* void Clean() { if (ptr != nullptr) delete ptr; }
ScopedClean(p, H) == DeletePtr(p, H)

\* ------------------------------------------------------------------ state
Init ==
    /\ kind = [h \in Handles |-> "none"]
    /\ ptr = [h \in Handles |-> NULL]
    /\ refs = [h \in Handles |-> NULL]
    /\ moved = [h \in Handles |-> FALSE]
    /\ cell = [c \in Cells |-> 0]
    /\ cst = [c \in Cells |-> "unalloc"]
    /\ origin = [c \in Cells |-> "none"]
    /\ rst = [r \in Resources |-> "unalloc"]
    /\ crashed = FALSE
    /\ last = [op |-> "none", self |-> FALSE, log |-> <<>>, ret |-> 0]
    /\ pc = [t \in Threads |-> "idle"]
    /\ reg = [t \in Threads |-> 0]
    /\ obj = [t \in Threads |-> NULL]
    /\ sync = FALSE
    /\ mutex = NULL

\* The step `name` ends with heap H: H becomes the state's heap.
CommitHeap(name, H) ==
    /\ cell' = H.cell
    /\ cst' = H.cst
    /\ origin' = H.origin
    /\ rst' = H.rst
    /\ crashed' = H.crashed
    /\ last' = [op |-> name, self |-> FALSE, log |-> H.log, ret |-> 0]

\* The operation `name`, run from start to end by the one thread of the program,
\* ends with heap H.
Commit(name, H) ==
    /\ CommitHeap(name, H)
    /\ UNCHANGED ThreadVars

\* The assignment `name` finds this == &other and returns at once.
CommitSelf(name) ==
    /\ last' = [op |-> name, self |-> TRUE, log |-> <<>>, ret |-> 0]
    /\ UNCHANGED <<cell, cst, origin, rst, crashed>>
    /\ UNCHANGED ThreadVars

HandleVars == <<kind, ptr, refs, moved>>

\* A new object in slot h, and an object's storage given back.
Construct(h, k, p, r) ==
    /\ kind' = [kind EXCEPT ![h] = k]
    /\ ptr' = [ptr EXCEPT ![h] = p]
    /\ refs' = [refs EXCEPT ![h] = r]
    /\ moved' = [moved EXCEPT ![h] = FALSE]

Destruct(h) == Construct(h, "none", NULL, NULL)

\* this takes other's fields and other is left with null fields.
Steal(this, k, other) ==
    /\ kind' = [kind EXCEPT ![this] = k]
    /\ ptr' = [ptr EXCEPT ![this] = ptr[other], ![other] = NULL]
    /\ refs' = [refs EXCEPT ![this] = refs[other], ![other] = NULL]
    /\ moved' = [moved EXCEPT ![this] = FALSE, ![other] = TRUE]

IsRef(h) == kind[h] = "ref"
IsScoped(h) == kind[h] = "scoped"

\* ------------------------------------------------------------------ RefPtr
\* RefPtr(): ptr(nullptr), refs(new size_t(0))
RefDefault ==
    LET h == FreshHandle
        c == FreshCell
    IN  /\ ~crashed /\ h # NULL /\ c # NULL
        /\ Construct(h, "ref", NULL, c)
        /\ Commit("RefDefault", NewRefs(c, 0, "default", Heap))

\* RefPtr(T* ptr): ptr(ptr), refs(new size_t(1)); the caller passes new T or nullptr
RefExplicit(fresh) ==
    LET h == FreshHandle
        c == FreshCell
        p == IF fresh THEN FreshRes ELSE NULL
    IN  /\ ~crashed /\ h # NULL /\ c # NULL
        /\ fresh => p # NULL
        /\ Construct(h, "ref", p, c)
        /\ Commit("RefExplicit", NewRefs(c, 1, IF fresh THEN "bound" ELSE "null", NewRes(p, Heap)))

\* RefPtr(const RefPtr& other): ptr(other.ptr), refs(other.refs) { IncRef(); }
RefCopyCtor(other) ==
    LET h == FreshHandle
    IN  /\ ~crashed /\ h # NULL /\ IsRef(other)
        /\ Construct(h, "ref", ptr[other], refs[other])
        /\ \E H \in IncRef(ptr[other], refs[other], Heap) : Commit("RefCopyCtor", H)

\* RefPtr& operator=(const RefPtr& other)
RefCopyAssign(this, other) ==
    /\ ~crashed /\ IsRef(this) /\ IsRef(other)
    /\ IF this = other
       THEN /\ CommitSelf("RefCopyAssign")
            /\ UNCHANGED HandleVars
       ELSE \E H1 \in Clean(ptr[this], refs[this], Heap) :
              IF H1.crashed
              THEN /\ Commit("RefCopyAssign", H1)
                   /\ UNCHANGED HandleVars
              ELSE /\ Construct(this, "ref", ptr[other], refs[other])
                   /\ \E H2 \in IncRef(ptr[other], refs[other], H1) :
                         Commit("RefCopyAssign", H2)

\* RefPtr(RefPtr&& other): ptr(other.ptr), refs(other.refs); other's fields nulled
RefMoveCtor(other) ==
    LET h == FreshHandle
    IN  /\ ~crashed /\ h # NULL /\ IsRef(other)
        /\ Steal(h, "ref", other)
        /\ Commit("RefMoveCtor", Heap)

\* operator=(RefPtr&&) without its test of this != &other.
RefMoveAssign_NoSelfTest(this, other) ==
    /\ ~crashed /\ IsRef(this) /\ IsRef(other)
    /\ \E H1 \in Clean(ptr[this], refs[this], Heap) :
          /\ Commit("RefMoveAssign", H1)
          /\ IF H1.crashed
             THEN UNCHANGED HandleVars
             ELSE Steal(this, "ref", other)

\* RefPtr& operator=(RefPtr&& other)
RefMoveAssign(this, other) ==
    /\ ~crashed /\ IsRef(this) /\ IsRef(other)
    /\ IF this = other
       THEN /\ CommitSelf("RefMoveAssign")
            /\ UNCHANGED HandleVars
       ELSE \E H1 \in Clean(ptr[this], refs[this], Heap) :
              /\ Commit("RefMoveAssign", H1)
              /\ IF H1.crashed
                 THEN UNCHANGED HandleVars
                 ELSE Steal(this, "ref", other)

\* ~RefPtr() { Clean(); }
RefDestroy(this) ==
    /\ ~crashed /\ IsRef(this)
    /\ \E H \in Clean(ptr[this], refs[this], Heap) : Commit("RefDestroy", H)
    /\ Destruct(this)

\* const size_t GetRefCount() const { return *refs; }
GetRefCount(this) ==
    /\ ~crashed /\ IsRef(this)
    /\ \E o \in ReadRefs(refs[this], Heap) :
          /\ cell' = o[2].cell /\ cst' = o[2].cst /\ rst' = o[2].rst
          /\ origin' = o[2].origin
          /\ crashed' = o[2].crashed
          /\ last' = [op |-> "GetRefCount", self |-> FALSE, log |-> o[2].log, ret |-> o[1]]
    /\ UNCHANGED HandleVars
    /\ UNCHANGED ThreadVars

\* RefPtr<T> InitRefPtr(Args&&...) { return RefPtr<T>(new T(...)); }
\* The object returned is the temporary RefPtr<T>(new T) itself when the build
\* elides the move; when it does not, the object returned is move-constructed from
\* the temporary, and the temporary, left with null fields, is then destroyed.
InitRefPtr(elide) ==
    LET h == FreshHandle
        c == FreshCell
        p == FreshRes
        H0 == NewRefs(c, 1, "bound", NewRes(p, Heap))
    IN  /\ ~crashed /\ h # NULL /\ c # NULL /\ p # NULL
        /\ \E H \in (IF elide THEN {H0} ELSE Clean(NULL, NULL, H0)) :
              /\ Commit("InitRefPtr", H)
              /\ Construct(h, "ref", p, c)

\* ------------------------------------------------------------------ ScopedPtr
\* ScopedPtr(): ptr(nullptr)
ScopedDefault ==
    LET h == FreshHandle
    IN  /\ ~crashed /\ h # NULL
        /\ Construct(h, "scoped", NULL, NULL)
        /\ Commit("ScopedDefault", Heap)

\* ScopedPtr(T* ptr): ptr(ptr); the caller passes new T or nullptr
ScopedExplicit(fresh) ==
    LET h == FreshHandle
        p == IF fresh THEN FreshRes ELSE NULL
    IN  /\ ~crashed /\ h # NULL
        /\ fresh => p # NULL
        /\ Construct(h, "scoped", p, NULL)
        /\ Commit("ScopedExplicit", NewRes(p, Heap))

\* ScopedPtr(ScopedPtr&&) without other.ptr = nullptr.
ScopedMoveCtor_NoReset(other) ==
    LET h == FreshHandle
    IN  /\ ~crashed /\ h # NULL /\ IsScoped(other)
        /\ Construct(h, "scoped", ptr[other], NULL)
        /\ Commit("ScopedMoveCtor", Heap)

\* ScopedPtr(ScopedPtr&& other): ptr(other.ptr) { other.ptr = nullptr; }
ScopedMoveCtor(other) ==
    LET h == FreshHandle
    IN  /\ ~crashed /\ h # NULL /\ IsScoped(other)
        /\ Steal(h, "scoped", other)
        /\ Commit("ScopedMoveCtor", Heap)

\* operator=(ScopedPtr&&) without its call of Clean.
ScopedMoveAssign_NoClean(this, other) ==
    /\ ~crashed /\ IsScoped(this) /\ IsScoped(other)
    /\ IF this = other
       THEN /\ CommitSelf("ScopedMoveAssign")
            /\ UNCHANGED HandleVars
       ELSE /\ Commit("ScopedMoveAssign", Heap)
            /\ Steal(this, "scoped", other)

\* ScopedPtr& operator=(ScopedPtr&& other)
ScopedMoveAssign(this, other) ==
    /\ ~crashed /\ IsScoped(this) /\ IsScoped(other)
    /\ IF this = other
       THEN /\ CommitSelf("ScopedMoveAssign")
            /\ UNCHANGED HandleVars
       ELSE \E H1 \in ScopedClean(ptr[this], Heap) :
              /\ Commit("ScopedMoveAssign", H1)
              /\ IF H1.crashed
                 THEN UNCHANGED HandleVars
                 ELSE Steal(this, "scoped", other)

\* ~ScopedPtr() { Clean(); }
ScopedDestroy(this) ==
    /\ ~crashed /\ IsScoped(this)
    /\ \E H \in ScopedClean(ptr[this], Heap) : Commit("ScopedDestroy", H)
    /\ Destruct(this)

\* ScopedPtr<T> InitScopedPtr(Args&&...) { return ScopedPtr<T>(new T(...)); }
\* As InitRefPtr: the temporary is the object returned, or is moved from and
\* destroyed.
InitScopedPtr(elide) ==
    LET h == FreshHandle
        p == FreshRes
        H0 == NewRes(p, Heap)
    IN  /\ ~crashed /\ h # NULL /\ p # NULL
        /\ \E H \in (IF elide THEN {H0} ELSE ScopedClean(NULL, H0)) :
              /\ Commit("InitScopedPtr", H)
              /\ Construct(h, "scoped", p, NULL)

\* ------------------------------------------------------------------ threads
\* RefPtr operations run by several threads, each on handles that no other thread
\* is using, the handles sharing counter cells.  The fields of a handle are the
\* thread's own; *refs is shared.  A step of a thread runs up to and including one
\* access to *refs: (*refs)++ and (*refs)-- are a load and a store, and nothing
\* keeps another thread's access from falling between the two.

\* *refs = v: the set of heap outcomes.
StoreRefs(r, v, H, e) ==
    IF r = NULL
    THEN {Kill(Ev(H, "null_deref", NULL)), Ev(H, "null_deref", NULL)}
    ELSE IF H.cst[r] # "live"
    THEN {Ev(H, "stale_write", r)}
    ELSE {Ev([H EXCEPT !.cell[r] = v % (SizeMax + 1)], e, r)}

\* Ptr.h takes no lock.  A caller that serializes the operations itself starts
\* one only with its mutex free.
CanEnter_NoMutex(t) == TRUE

CanEnter(t) == sync => mutex = NULL

\* Some thread is in the middle of an operation on h.
InUse(h) == \E t \in Threads : obj[t] = h

\* Thread t goes on to pc value l, inside the operation on h.
Goto(t, l, h) ==
    /\ pc' = [pc EXCEPT ![t] = l]
    /\ obj' = [obj EXCEPT ![t] = h]
    /\ mutex' = IF sync THEN t ELSE NULL
    /\ UNCHANGED sync

\* Thread t has finished its operation.
Finish(t) ==
    /\ pc' = [pc EXCEPT ![t] = "idle"]
    /\ obj' = [obj EXCEPT ![t] = NULL]
    /\ reg' = [reg EXCEPT ![t] = 0]
    /\ mutex' = NULL
    /\ UNCHANGED sync

\* RefPtr(const RefPtr& other): the fields are copied, and IncRef loads *refs.
ThreadCopy(t, other) ==
    LET h == FreshHandle
    IN  /\ ~crashed /\ pc[t] = "idle" /\ CanEnter(t)
        /\ h # NULL /\ IsRef(other) /\ ~InUse(other)
        /\ Construct(h, "ref", ptr[other], refs[other])
        /\ IF ptr[other] = NULL
           THEN /\ CommitHeap("ThreadCopy", Heap)
                /\ UNCHANGED ThreadVars
           ELSE \E o \in ReadRefs(refs[other], Heap) :
                   /\ CommitHeap("ThreadCopy", o[2])
                   /\ reg' = [reg EXCEPT ![t] = o[1]]
                   /\ Goto(t, "inc_store", h)

\* IncRef stores the value it loaded, plus one.
ThreadIncStore(t) ==
    /\ ~crashed /\ pc[t] = "inc_store"
    /\ \E H \in StoreRefs(refs[obj[t]], reg[t] + 1, Heap, "inc") :
          CommitHeap("ThreadIncStore", H)
    /\ Finish(t)
    /\ UNCHANGED HandleVars

\* ~RefPtr() on h: Clean calls DecRef, which loads *refs unless ptr is null.
ThreadDestroy(t, h) ==
    /\ ~crashed /\ pc[t] = "idle" /\ CanEnter(t)
    /\ IsRef(h) /\ ~InUse(h)
    /\ IF ptr[h] = NULL
       THEN /\ CommitHeap("ThreadDestroy", Heap)
            /\ Goto(t, "test", h)
            /\ UNCHANGED reg
       ELSE \E o \in ReadRefs(refs[h], Heap) :
               /\ CommitHeap("ThreadDestroy", o[2])
               /\ reg' = [reg EXCEPT ![t] = o[1]]
               /\ Goto(t, "dec_store", h)
    /\ UNCHANGED HandleVars

\* DecRef stores the value it loaded, less one.
ThreadDecStore(t) ==
    /\ ~crashed /\ pc[t] = "dec_store"
    /\ \E H \in StoreRefs(refs[obj[t]], reg[t] + SizeMax, Heap, "dec") :
          CommitHeap("ThreadDecStore", H)
    /\ Goto(t, "test", obj[t])
    /\ UNCHANGED <<HandleVars, reg>>

\* Clean reads *refs again for its test: zero, and it goes on to free; not zero,
\* and the destructor is over.
ThreadTest(t) ==
    /\ ~crashed /\ pc[t] = "test"
    /\ \E o \in ReadRefs(refs[obj[t]], Heap) :
          /\ CommitHeap("ThreadTest", o[2])
          /\ IF o[1] = 0 /\ ~o[2].crashed
             THEN /\ Goto(t, "free", obj[t])
                  /\ UNCHANGED <<HandleVars, reg>>
             ELSE /\ Finish(t)
                  /\ Destruct(obj[t])

\* if (ptr != nullptr) delete ptr; delete refs; and the destructor is over.
ThreadFree(t) ==
    /\ ~crashed /\ pc[t] = "free"
    /\ \E H \in UNION {IF H1.crashed THEN {H1} ELSE DeleteRefs(refs[obj[t]], H1)
                       : H1 \in DeletePtr(ptr[obj[t]], Heap)} :
          CommitHeap("ThreadFree", H)
    /\ Finish(t)
    /\ Destruct(obj[t])

\* RefPtr<T> a(new T); RefPtr<T> b(a); and the threads start, the caller
\* serializing what they do or not.
InitThreads ==
    /\ kind = [h \in Handles |-> IF h <= 2 THEN "ref" ELSE "none"]
    /\ ptr = [h \in Handles |-> IF h <= 2 THEN 1 ELSE NULL]
    /\ refs = [h \in Handles |-> IF h <= 2 THEN 1 ELSE NULL]
    /\ moved = [h \in Handles |-> FALSE]
    /\ cell = [c \in Cells |-> IF c = 1 THEN 2 ELSE 0]
    /\ cst = [c \in Cells |-> IF c = 1 THEN "live" ELSE "unalloc"]
    /\ origin = [c \in Cells |-> IF c = 1 THEN "bound" ELSE "none"]
    /\ rst = [r \in Resources |-> IF r = 1 THEN "live" ELSE "unalloc"]
    /\ crashed = FALSE
    /\ last = [op |-> "none", self |-> FALSE, log |-> <<>>, ret |-> 0]
    /\ pc = [t \in Threads |-> "idle"]
    /\ reg = [t \in Threads |-> 0]
    /\ obj = [t \in Threads |-> NULL]
    /\ sync \in BOOLEAN
    /\ mutex = NULL

NextThreads ==
    \/ \E t \in Threads : \E other \in Handles : ThreadCopy(t, other)
    \/ \E t \in Threads : ThreadIncStore(t)
    \/ \E t \in Threads : \E h \in Handles : ThreadDestroy(t, h)
    \/ \E t \in Threads : ThreadDecStore(t)
    \/ \E t \in Threads : ThreadTest(t)
    \/ \E t \in Threads : ThreadFree(t)

SpecThreads == InitThreads /\ [][NextThreads]_vars

\* ------------------------------------------------------------------ specification
\* A program's next step is an operation on a RefPtr ...
NextRef ==
    \/ RefDefault
    \/ \E fresh \in BOOLEAN : RefExplicit(fresh)
    \/ \E other \in Handles : RefCopyCtor(other)
    \/ \E this, other \in Handles : RefCopyAssign(this, other)
    \/ \E other \in Handles : RefMoveCtor(other)
    \/ \E this, other \in Handles : RefMoveAssign(this, other)
    \/ \E this \in Handles : RefDestroy(this)
    \/ \E this \in Handles : GetRefCount(this)
    \/ \E elide \in BOOLEAN : InitRefPtr(elide)

\* ... or on a ScopedPtr.
NextScoped ==
    \/ ScopedDefault
    \/ \E fresh \in BOOLEAN : ScopedExplicit(fresh)
    \/ \E other \in Handles : ScopedMoveCtor(other)
    \/ \E this, other \in Handles : ScopedMoveAssign(this, other)
    \/ \E this \in Handles : ScopedDestroy(this)
    \/ \E elide \in BOOLEAN : InitScopedPtr(elide)

Next == NextRef \/ NextScoped

\* Programs that use both classes, RefPtr alone, and ScopedPtr alone.
Spec == Init /\ [][Next]_vars

SpecRef == Init /\ [][NextRef]_vars

SpecScoped == Init /\ [][NextScoped]_vars

\* The names that the operations of each class leave in last.op.
RefOps == {"RefDefault", "RefExplicit", "RefCopyCtor", "RefCopyAssign", "RefMoveCtor",
           "RefMoveAssign", "RefDestroy", "GetRefCount", "InitRefPtr"}

ScopedOps == {"ScopedDefault", "ScopedExplicit", "ScopedMoveCtor", "ScopedMoveAssign",
              "ScopedDestroy", "InitScopedPtr"}

\* Programs that keep to the class of their first operation.  The two classes
\* share no field and no function of Ptr.h takes a handle of each, so these are
\* the runs of SpecRef and the runs of SpecScoped, in one specification.
RefRun == last.op \in RefOps \cup {"none"}

ScopedRun == last.op \in ScopedOps \cup {"none"}

NextEither ==
    \/ RefRun /\ RefDefault
    \/ \E fresh \in BOOLEAN : RefRun /\ RefExplicit(fresh)
    \/ \E other \in Handles : RefRun /\ RefCopyCtor(other)
    \/ \E this, other \in Handles : RefRun /\ RefCopyAssign(this, other)
    \/ \E other \in Handles : RefRun /\ RefMoveCtor(other)
    \/ \E this, other \in Handles : RefRun /\ RefMoveAssign(this, other)
    \/ \E this \in Handles : RefRun /\ RefDestroy(this)
    \/ \E this \in Handles : RefRun /\ GetRefCount(this)
    \/ \E elide \in BOOLEAN : RefRun /\ InitRefPtr(elide)
    \/ ScopedRun /\ ScopedDefault
    \/ \E fresh \in BOOLEAN : ScopedRun /\ ScopedExplicit(fresh)
    \/ \E other \in Handles : ScopedRun /\ ScopedMoveCtor(other)
    \/ \E this, other \in Handles : ScopedRun /\ ScopedMoveAssign(this, other)
    \/ \E this \in Handles : ScopedRun /\ ScopedDestroy(this)
    \/ \E elide \in BOOLEAN : ScopedRun /\ InitScopedPtr(elide)

SpecEither == Init /\ [][NextEither]_vars

TypeOK ==
    /\ kind \in [Handles -> {"none", "scoped", "ref"}]
    /\ ptr \in [Handles -> Resources \cup {NULL}]
    /\ refs \in [Handles -> Cells \cup {NULL}]
    /\ moved \in [Handles -> BOOLEAN]
    /\ cell \in [Cells -> 0..SizeMax]
    /\ cst \in [Cells -> AllocStates]
    /\ origin \in [Cells -> {"none", "default", "bound", "null"}]
    /\ rst \in [Resources -> AllocStates]
    /\ crashed \in BOOLEAN
    /\ pc \in [Threads -> {"idle", "inc_store", "dec_store", "test", "free"}]
    /\ reg \in [Threads -> 0..SizeMax]
    /\ obj \in [Threads -> Handles \cup {NULL}]
    /\ sync \in BOOLEAN
    /\ mutex \in Threads \cup {NULL}

\* ------------------------------------------------------------------ vocabulary
\* The live RefPtr objects whose refs is the cell c.
Owners(c) == {h \in Handles : IsRef(h) /\ refs[h] = c}

\* Those of them that hold a Resource.
BoundOwners(c) == {h \in Owners(c) : ptr[h] # NULL}

Events == {last.log[i] : i \in DOMAIN last.log}

\* The RefPtr operations that run Clean: the destructor and the two assignments.
ReleaseOps == {"RefDestroy", "RefCopyAssign", "RefMoveAssign"}

\* The live RefPtr objects whose ptr is the Resource r.
Holders(r) == {h \in Handles : IsRef(h) /\ ptr[h] = r}

\* ------------------------------------------------------------------ C1
\* C1 as stated: the value of every counter cell not yet released equals the
\* number of live RefPtr objects that reference the cell.
C1_CountEqualsReferences ==
    \A c \in Cells : cst[c] = "live" => cell[c] = Cardinality(Owners(c))

\* C1 amended: the value of every counter cell not yet released equals the number
\* of live RefPtr objects that reference the cell and hold a Resource, plus one
\* for a cell that RefPtr(T*) allocated for a null pointer.
C1_CountEqualsBoundOwners ==
    \A c \in Cells :
        cst[c] = "live" =>
            cell[c] = Cardinality(BoundOwners(c)) + (IF origin[c] = "null" THEN 1 ELSE 0)

\* Two RefPtr share one Resource after a copy assignment, and the count is 2.
C1_Witness ==
    /\ last.op = "RefCopyAssign"
    /\ \E c \in Cells : cst[c] = "live" /\ cell[c] = 2 /\ Cardinality(BoundOwners(c)) = 2

\* ------------------------------------------------------------------ C2
\* What C2 says of one step: a Resource held by a RefPtr is deleted only by a
\* destructor or an assignment whose decrement takes the counter of its cell from 1
\* to 0, the cell going with it; a decrement from 1 to 0 deletes the Resource; no
\* Resource is deleted twice; and no live RefPtr is left holding a deleted Resource.
C2_Step ==
    /\ \A r \in Resources :
          (Holders(r) # {} /\ rst[r] = "live" /\ rst'[r] # "live") =>
              /\ last'.op \in ReleaseOps
              /\ \E h \in Holders(r) :
                    /\ refs[h] \in Cells /\ cst[refs[h]] = "live" /\ cell[refs[h]] = 1
                    /\ <<"dec", refs[h]>> \in Events'
                    /\ cst'[refs[h]] = "freed"
              /\ Holders(r)' = {}
    /\ \A h \in Handles :
          (IsRef(h) /\ ptr[h] # NULL /\ refs[h] \in Cells /\ cell[refs[h]] = 1
           /\ <<"dec", refs[h]>> \in Events') => rst'[ptr[h]] = "freed"
    /\ \A e \in Events' : e[1] # "double_free_ptr"
    /\ \A h \in Handles : (IsRef(h)' /\ ptr'[h] # NULL) => rst'[ptr'[h]] = "live"

\* C2: each Resource is released exactly once, by the operation whose decrement
\* takes its counter from 1 to 0, and never while a live RefPtr still holds it.
C2_ReleasedOnceAtZero == [][C2_Step]_vars

\* An assignment overwrote the last owner of a Resource and so released it, while
\* another Resource is still held.
C2_Witness ==
    /\ last.op = "RefCopyAssign" /\ ~crashed
    /\ \E r \in Resources : <<"delete_ptr", r>> \in Events
    /\ \E r \in Resources : rst[r] = "live" /\ Cardinality(Holders(r)) = 2

\* ------------------------------------------------------------------ C3
\* The object h is destroyed in this step.
Destroyed(h) == kind[h] # "none" /\ kind'[h] = "none"

\* C3: destroying a ScopedPtr or a RefPtr that was the source of a move is a no-op:
\* it touches no counter cell, decrements and releases nothing, and does not fail.
C3_MovedFromDestroyIsNoOp ==
    [][\A h \in Handles :
          (moved[h] /\ Destroyed(h)) =>
              /\ last'.log = <<>>
              /\ ~crashed'
              /\ UNCHANGED <<cell, cst, rst>>]_vars

\* ------------------------------------------------------------------ C4
FaultsOnCells == {"stale_read", "stale_write", "double_free_refs"}

\* C4: no counter cell is read, written or released again after it was released, and
\* a cell is released together with the Resource of its owners.
C4_CellReleasedOnce ==
    [][/\ \A e \in Events' : e[1] \notin FaultsOnCells
       /\ \A c \in Cells :
             (cst[c] = "live" /\ cst'[c] = "freed") =>
                 \A h \in BoundOwners(c) : rst'[ptr[h]] = "freed"]_vars

\* ------------------------------------------------------------------ C5
\* C5: every live RefPtr has a counter cell, so GetRefCount never fails, returns
\* the cell's value, and returns 0 for the cell of a default-constructed handle.
C5_GetRefCountNeverFails ==
    /\ \A h \in Handles : IsRef(h) => refs[h] \in Cells /\ cst[refs[h]] = "live"
    /\ last.op = "GetRefCount" =>
          /\ ~crashed
          /\ \E c \in Cells :
                /\ last.log = <<<<"read", c>>>>
                /\ last.ret = cell[c]
                /\ origin[c] = "default" => last.ret = 0

\* ------------------------------------------------------------------ C6
\* The value of cell c just before the last step of an assignment that began by
\* running Clean: the value before the operation, less Clean's decrement.
AfterClean(c) == cell[c] - (IF <<"dec", c>> \in Events' THEN 1 ELSE 0)

\* The copy left `this` with the Resource and cell of `other`, the cell counting
\* one more than just before the attach, and other's fields as they were.
Attached(this, other) ==
    /\ ~crashed'
    /\ ptr'[this] = ptr[other] /\ refs'[this] = refs[other]
    /\ ptr'[other] = ptr[other] /\ refs'[other] = refs[other]
    /\ refs[other] \in Cells
    /\ cst'[refs[other]] = "live"
    /\ cell'[refs[other]] = AfterClean(refs[other]) + 1

\* C6: a copy construction, or a copy assignment from another handle, leaves the
\* destination with the source's Resource and cell, the cell counting one more
\* than just before the attach, and the source's fields unchanged.
C6_CopyIncrements ==
    [][\A a, b \in Handles :
          /\ (last'.op = "RefCopyCtor" /\ RefCopyCtor(b)) => Attached(FreshHandle, b)
          /\ (last'.op = "RefCopyAssign" /\ a # b /\ RefCopyAssign(a, b)) =>
                Attached(a, b)]_vars

\* ------------------------------------------------------------------ C7
\* Clean released the ownership that `this` had of Resource p through cell c: one
\* decrement, first, and p and c deleted if and only if the count became zero.
ReleasedOwnership(p, c) ==
    /\ c \in Cells /\ cst[c] = "live"
    /\ last'.log # <<>> /\ last'.log[1] = <<"dec", c>>
    /\ (<<"delete_ptr", p>> \in Events') = (cell[c] = 1)
    /\ (<<"delete_refs", c>> \in Events') = (cell[c] = 1)
    /\ \A e \in Events' : e[1] \in {"dec", "read", "delete_ptr", "delete_refs", "inc"}

\* C7: a = b with a holding a Resource and a, b on different cells releases a's
\* ownership first (one decrement; Resource and cell freed iff the count is then
\* zero) and then attaches to b and increments; with a and b on one cell already,
\* the count is unchanged and nothing is released.
C7_CopyAssignReleasesFirst ==
    [][\A a, b \in Handles :
          (last'.op = "RefCopyAssign" /\ a # b /\ RefCopyAssign(a, b)) =>
              /\ ~crashed'
              /\ ptr'[a] = ptr[b] /\ refs'[a] = refs[b]
              /\ (refs[a] = refs[b]) => UNCHANGED <<cell, cst, rst>>
              /\ (refs[a] # refs[b] /\ ptr[a] # NULL) =>
                    /\ ReleasedOwnership(ptr[a], refs[a])
                    /\ ptr[b] # NULL =>
                          last'.log[Len(last'.log)] = <<"inc", refs[b]>>]_vars

\* ------------------------------------------------------------------ C8
\* The move left `this` with the Resource and cell of `other`, other's fields null,
\* and the count of the cell as it was before the transfer.
Transferred(this, other) ==
    /\ ~crashed'
    /\ ptr'[this] = ptr[other] /\ refs'[this] = refs[other]
    /\ ptr'[other] = NULL /\ refs'[other] = NULL
    /\ refs[other] \in Cells
    /\ cst'[refs[other]] = "live"
    /\ cell'[refs[other]] = AfterClean(refs[other])

\* C8: a move construction or a move assignment from a source that holds a Resource
\* leaves the count of the transferred cell unchanged, the destination with the
\* source's Resource and cell, and the source with both fields null.
C8_MoveTransfers ==
    [][\A a, b \in Handles :
          /\ (last'.op = "RefMoveCtor" /\ ptr[b] # NULL /\ RefMoveCtor(b)) =>
                Transferred(FreshHandle, b)
          /\ (last'.op = "RefMoveAssign" /\ ptr[b] # NULL /\ a # b /\ RefMoveAssign(a, b)) =>
                Transferred(a, b)]_vars

\* ------------------------------------------------------------------ C9
\* C9: assigning a handle to itself (ScopedPtr move assignment, RefPtr copy and move
\* assignment) changes no field of any handle, no counter and no allocation.
C9_SelfAssignIsNoOp ==
    [][\A h \in Handles :
          (\/ last'.op = "RefCopyAssign" /\ RefCopyAssign(h, h)
           \/ last'.op = "RefMoveAssign" /\ RefMoveAssign(h, h)
           \/ last'.op = "ScopedMoveAssign" /\ ScopedMoveAssign(h, h)) =>
              /\ UNCHANGED <<kind, ptr, refs, cell, cst, rst, crashed>>
              /\ last'.log = <<>>]_vars

\* A RefPtr that is the only owner of its Resource was move-assigned to itself.
C9_Witness ==
    /\ last.op = "RefMoveAssign" /\ last.self
    /\ \E h \in Handles :
          /\ IsRef(h) /\ ptr[h] # NULL /\ rst[ptr[h]] = "live"
          /\ refs[h] # NULL /\ cell[refs[h]] = 1
          /\ \A g \in Handles : IsRef(g) => g = h

\* ------------------------------------------------------------------ C10
\* Clean runs on h in this step: h is destroyed or is assigned from another handle.
Releases(h) ==
    \/ last'.op = "RefDestroy" /\ Destroyed(h)
    \/ last'.op = "RefCopyAssign" /\ \E o \in Handles \ {h} : RefCopyAssign(h, o)
    \/ last'.op = "RefMoveAssign" /\ \E o \in Handles \ {h} : RefMoveAssign(h, o)

\* C10 as stated: the release path of an empty RefPtr does nothing: no decrement,
\* no Resource released, no counter cell released.
C10_EmptyReleaseDoesNothing ==
    [][\A h \in Handles :
          (IsRef(h) /\ ptr[h] = NULL /\ Releases(h)) =>
              /\ \A e \in Events' : e[1] \notin {"dec", "delete_ptr", "delete_refs"}
              /\ UNCHANGED <<cst, rst>>]_vars

\* C10 amended: the release path of an empty RefPtr decrements nothing and releases
\* no Resource, but it tests the counter and deletes the counter cell when the
\* counter is 0, as it is for a default-constructed handle.
C10_EmptyReleaseFreesZeroCell ==
    [][\A h \in Handles :
          (IsRef(h) /\ ptr[h] = NULL /\ Releases(h)) =>
              /\ \A e \in Events' : e[1] \notin {"dec", "delete_ptr"}
              /\ UNCHANGED rst
              /\ (refs[h] \in Cells /\ cst[refs[h]] = "live" /\ cell[refs[h]] = 0) =>
                    /\ <<"delete_refs", refs[h]>> \in Events'
                    /\ cst'[refs[h]] = "freed"]_vars

\* A RefPtr that holds no Resource was destroyed, and its cell, holding 0, deleted.
C10_Witness ==
    /\ last.op = "RefDestroy" /\ ~crashed
    /\ \E c \in Cells : last.log = <<<<"read", c>>, <<"delete_refs", c>>>> /\ cst[c] = "freed"

\* ------------------------------------------------------------------ C11
\* The live ScopedPtr objects whose ptr is the Resource r.
ScopedHolders(r) == {h \in Handles : IsScoped(h) /\ ptr[h] = r}

\* C11: a Resource being passed to ScopedPtr(T*) at most once, no two live
\* ScopedPtr objects hold the same Resource.
C11_OneScopedHolder ==
    \A r \in Resources : Cardinality(ScopedHolders(r)) <= 1

\* A ScopedPtr took a live Resource by move assignment; its source is left empty.
C11_Witness ==
    /\ last.op = "ScopedMoveAssign" /\ ~last.self
    /\ \E h, g \in Handles :
          /\ IsScoped(h) /\ ptr[h] # NULL /\ rst[ptr[h]] = "live"
          /\ IsScoped(g) /\ moved[g] /\ ptr[g] = NULL
          /\ ScopedHolders(ptr[h]) = {h}

\* ------------------------------------------------------------------ C12
\* C12: b = move(a), a holding r1 and b holding r2, deletes r2 once, and r2 it is
\* (the pointer b held before the transfer) and nothing else; afterwards b alone
\* holds r1, a holds nothing, and r1 is not deleted.
C12_ScopedMoveAssignReleasesOld ==
    [][\A a, b \in Handles : \A r1, r2 \in Resources :
          (/\ last'.op = "ScopedMoveAssign" /\ a # b
           /\ IsScoped(a) /\ ptr[a] = r1
           /\ IsScoped(b) /\ ptr[b] = r2
           /\ ScopedMoveAssign(b, a)) =>
              /\ ~crashed'
              /\ last'.log = <<<<"delete_ptr", r2>>>>
              /\ rst[r2] = "live" /\ rst'[r2] = "freed"
              /\ ptr'[b] = r1 /\ ptr'[a] = NULL
              /\ ScopedHolders(r1)' = {b}
              /\ rst'[r1] = "live"]_vars

\* A ScopedPtr that held a Resource was move-assigned from one holding another: the
\* first Resource is deleted, the second is live in the destination.
C12_Witness ==
    /\ last.op = "ScopedMoveAssign" /\ ~crashed
    /\ \E r1, r2 \in Resources : \E b \in Handles :
          /\ r1 # r2
          /\ last.log = <<<<"delete_ptr", r2>>>> /\ rst[r2] = "freed"
          /\ IsScoped(b) /\ ptr[b] = r1 /\ rst[r1] = "live"

\* ------------------------------------------------------------------ C13
\* What C13 says of one step.  Destroying one of the n >= 2 RefPtr that hold r leaves
\* r and the cell allocated and every other holder's cell counting n - 1;
\* destroying the only holder deletes r; and GetRefCount of a holder returns the
\* number of holders.
C13_Step ==
    \A h \in Handles : \A r \in Resources :
        LET n == Cardinality(Holders(r))
        IN  /\ (last'.op = "RefDestroy" /\ IsRef(h) /\ ptr[h] = r /\ Destroyed(h)) =>
                  /\ ~crashed'
                  /\ n >= 2 =>
                        /\ rst'[r] = "live"
                        /\ \A g \in Holders(r) \ {h} :
                              /\ ptr'[g] = r /\ refs'[g] \in Cells
                              /\ cst'[refs'[g]] = "live"
                              /\ cell'[refs'[g]] = n - 1
                  /\ n = 1 => rst[r] = "live" /\ rst'[r] = "freed"
            /\ (last'.op = "GetRefCount" /\ IsRef(h) /\ ptr[h] = r /\ GetRefCount(h)) =>
                  ~crashed' /\ last'.ret = n

\* C13: with n >= 2 owners of a Resource, destroying one lowers the count that the
\* others read to n - 1 and releases nothing; the destruction of the last owner
\* releases the Resource.
C13_LastOwnerReleases == [][C13_Step]_vars

\* One of two owners was destroyed: the count is 1, and the Resource is still there
\* for the other.
C13_Witness ==
    /\ last.op = "RefDestroy" /\ ~crashed
    /\ \E c \in Cells : \E r \in Resources :
          /\ last.log = <<<<"dec", c>>, <<"read", c>>>>
          /\ cell[c] = 1 /\ cst[c] = "live" /\ rst[r] = "live"
          /\ Cardinality(Holders(r)) = 1
          /\ \A h \in Holders(r) : refs[h] = c

\* ------------------------------------------------------------------ C14
\* The helper returned the new object h of class k, holding a Resource allocated in
\* this step that is live and that no other handle holds.
ReturnedSoleHolder(h, k) ==
    /\ ~crashed'
    /\ kind[h] = "none" /\ kind'[h] = k
    /\ ptr'[h] \in Resources
    /\ rst[ptr'[h]] = "unalloc" /\ rst'[ptr'[h]] = "live"
    /\ \A g \in Handles \ {h} : kind'[g] # "none" => ptr'[g] # ptr'[h]

\* C14: InitScopedPtr returns a handle that alone holds its new, live Resource;
\* InitRefPtr returns a handle that alone holds its new, live Resource and its
\* counter cell, the cell counting 1.
C14_InitReturnsSoleOwner ==
    [][/\ last'.op = "InitScopedPtr" =>
             \E h \in Handles : ReturnedSoleHolder(h, "scoped")
       /\ last'.op = "InitRefPtr" =>
             \E h \in Handles :
                /\ ReturnedSoleHolder(h, "ref")
                /\ refs'[h] \in Cells
                /\ cst'[refs'[h]] = "live" /\ cell'[refs'[h]] = 1
                /\ \A g \in Handles \ {h} : kind'[g] = "ref" => refs'[g] # refs'[h]]_vars

\* ------------------------------------------------------------------ C15
\* C15: b = move(a), a and b distinct, releases b's ownership first, as copy
\* assignment does (one decrement; Resource and cell freed iff the count is then
\* zero), and then takes a's Resource and cell; with a and b on one cell that
\* counted n, the cell then counts n - 1, the number of its remaining owners.
C15_MoveAssignReleasesFirst ==
    [][\A a, b \in Handles :
          (last'.op = "RefMoveAssign" /\ a # b /\ RefMoveAssign(b, a)) =>
              /\ ~crashed'
              /\ ptr'[b] = ptr[a] /\ refs'[b] = refs[a]
              /\ ptr[b] # NULL => ReleasedOwnership(ptr[b], refs[b])
              /\ \A c \in Cells :
                    (refs[a] = c /\ refs[b] = c) =>
                        /\ cst'[c] = "live"
                        /\ cell'[c] = cell[c] - 1
                        /\ cell'[c] = Cardinality(Owners(c))']_vars

\* ------------------------------------------------------------------ C16
\* ScopedPtr::Clean runs on h in this step: h is destroyed, or is the destination
\* of a move assignment from another handle.
ScopedReleases(h) ==
    \/ last'.op = "ScopedDestroy" /\ Destroyed(h)
    \/ last'.op = "ScopedMoveAssign" /\ \E o \in Handles \ {h} : ScopedMoveAssign(h, o)

\* What C16 says of one step: no Resource is deleted twice; a Resource is deleted
\* only when the ScopedPtr that holds it is destroyed or overwritten, and then it
\* is; an empty ScopedPtr destroyed or overwritten releases nothing; and no live
\* ScopedPtr is left holding a deleted Resource.
C16_Step ==
    /\ \A e \in Events' : e[1] # "double_free_ptr"
    /\ \A r \in Resources :
          (rst[r] = "live" /\ rst'[r] = "freed") =>
              \E h \in ScopedHolders(r) : ScopedReleases(h)
    /\ \A h \in Handles :
          (IsScoped(h) /\ ScopedReleases(h)) =>
              /\ ~crashed'
              /\ ptr[h] # NULL =>
                    /\ rst[ptr[h]] = "live" /\ rst'[ptr[h]] = "freed"
                    /\ last'.log = <<<<"delete_ptr", ptr[h]>>>>
              /\ ptr[h] = NULL => last'.log = <<>> /\ UNCHANGED rst
    /\ \A h \in Handles : (IsScoped(h)' /\ ptr'[h] # NULL) => rst'[ptr'[h]] = "live"

\* C16: each Resource owned by a ScopedPtr is released exactly once, when its owner
\* is destroyed or overwritten by a move assignment, and destroying an empty
\* ScopedPtr releases nothing.
C16_ScopedReleasedOnce == [][C16_Step]_vars

\* The last ScopedPtr was destroyed and its Resource deleted by that; no Resource
\* is left allocated.
C16_Witness ==
    /\ last.op = "ScopedDestroy" /\ ~crashed
    /\ \E r \in Resources : last.log = <<<<"delete_ptr", r>>>> /\ rst[r] = "freed"
    /\ \A h \in Handles : kind[h] = "none"
    /\ \A r \in Resources : rst[r] # "live"

\* ------------------------------------------------------------------ C17
\* C17: once every RefPtr of a run is destroyed, no Resource and no counter cell
\* that the run allocated is left allocated.
C17_NothingLeaked ==
    (~crashed /\ \A h \in Handles : kind[h] # "ref") =>
        /\ \A c \in Cells : cst[c] # "live"
        /\ \A r \in Resources : rst[r] # "live"

\* ------------------------------------------------------------------ C18
\* The RefPtr a, assigned from b in this step, came out of it without a fault, with
\* b's Resource, and on a live cell that counts the holders of that Resource.
OwnsAssigned(a, b) ==
    /\ ~crashed'
    /\ \A e \in Events' : e[1] \in {"read", "dec", "inc", "delete_ptr", "delete_refs"}
    /\ ptr'[a] = ptr[b]
    /\ \A r \in Resources : \A c \in Cells :
          (ptr[b] = r /\ refs[b] = c) =>
              /\ refs'[a] = c
              /\ rst'[r] = "live" /\ cst'[c] = "live"
              /\ cell'[c] = Cardinality(Holders(r))'

\* C18: a handle emptied by a move can be the destination of an assignment: the
\* assignment does not fail, and the handle then owns what was assigned, the
\* counter equal to the number of owners.
C18_MovedFromIsAssignable ==
    [][\A a, b \in Handles :
          /\ (last'.op = "ScopedMoveAssign" /\ a # b /\ moved[a] /\ ScopedMoveAssign(a, b)) =>
                /\ ~crashed' /\ last'.log = <<>>
                /\ ptr'[a] = ptr[b]
                /\ \A r \in Resources :
                      ptr[b] = r => rst'[r] = "live" /\ ScopedHolders(r)' = {a}
          /\ (last'.op = "RefCopyAssign" /\ a # b /\ moved[a] /\ RefCopyAssign(a, b)) =>
                OwnsAssigned(a, b)
          /\ (last'.op = "RefMoveAssign" /\ a # b /\ moved[a] /\ RefMoveAssign(a, b)) =>
                OwnsAssigned(a, b)]_vars

\* ------------------------------------------------------------------ C19
\* No thread is in the middle of an operation.
Quiescent == \A t \in Threads : pc[t] = "idle"

\* C19: when the caller lets the operations of the threads run one at a time only,
\* then between operations every counter equals the number of handles that hold
\* its Resource, and a Resource is released exactly when no handle holds it.
C19_SerializedCountsOwners ==
    (sync /\ Quiescent) =>
        /\ ~crashed
        /\ \A c \in Cells : cst[c] = "live" => cell[c] = Cardinality(BoundOwners(c))
        /\ \A r \in Resources :
              rst[r] # "unalloc" => (rst[r] = "live" <=> Holders(r) # {})

\* A lost update: without serialization two threads destroyed the two owners at
\* once, both loaded 2 and stored 1; no handle is left, the counter is 1, and the
\* Resource is never released.
C19_Witness ==
    /\ ~sync /\ Quiescent /\ ~crashed
    /\ \A h \in Handles : kind[h] = "none"
    /\ \E c \in Cells : cst[c] = "live" /\ cell[c] = 1
    /\ \E r \in Resources : rst[r] = "live"

====
